---- MODULE Spec2Model ----
(***************************************************************************)
(* A model of databento-python's symbolic-parameter layer                  *)
(* (databento/common/enums.py) and of its HTTP transport                   *)
(* (databento/historical/http.py).                                         *)
(*                                                                         *)
(* Python strings and bytes are sequences of one-character strings, so     *)
(* that str.lower, str.upper, str.replace and == are computed, not assumed.*)
(* The enum machinery itself (Enum.__new__'s value lookup, EnumMeta) is    *)
(* the standard library's; it is modelled as CPython 3.8 - 3.11 run it for *)
(* the classes of enums.py.                                                *)
(***************************************************************************)
EXTENDS Integers, Sequences, FiniteSets, TLC

(***************************************************************************)
(* Characters and strings                                                  *)
(***************************************************************************)
LowerChars ==
  <<"a","b","c","d","e","f","g","h","i","j","k","l","m",
    "n","o","p","q","r","s","t","u","v","w","x","y","z">>

UpperChars ==
  <<"A","B","C","D","E","F","G","H","I","J","K","L","M",
    "N","O","P","Q","R","S","T","U","V","W","X","Y","Z">>

DigitChars == <<"0","1","2","3","4","5","6","7","8","9">>

IsIn(c, alphabet) == \E i \in 1..Len(alphabet) : alphabet[i] = c

IndexIn(c, alphabet) == CHOOSE i \in 1..Len(alphabet) : alphabet[i] = c

\* str.lower() / str.upper() on one ASCII character
LowerChar(c) == IF IsIn(c, UpperChars) THEN LowerChars[IndexIn(c, UpperChars)] ELSE c

UpperChar(c) == IF IsIn(c, LowerChars) THEN UpperChars[IndexIn(c, LowerChars)] ELSE c

ToggleChar(c) == IF IsIn(c, UpperChars) THEN LowerChar(c) ELSE UpperChar(c)

LowerStr(s) == [i \in 1..Len(s) |-> LowerChar(s[i])]

UpperStr(s) == [i \in 1..Len(s) |-> UpperChar(s[i])]

\* str.replace(old, new) for one-character old and new
ReplaceChar(s, old, new) == [i \in 1..Len(s) |-> IF s[i] = old THEN new ELSE s[i]]

\* sep.join(parts)
Join(sep, parts) ==
  LET joined[k \in 0..Len(parts)] ==
        IF k = 0 THEN <<>>
        ELSE IF k = 1 THEN parts[1]
        ELSE joined[k - 1] \o sep \o parts[k]
  IN joined[Len(parts)]

\* str(n) for an integer n >= 0
DecimalStr(n) ==
  LET digits[k \in 0..n] ==
        IF k < 10 THEN <<DigitChars[k + 1]>>
        ELSE digits[k \div 10] \o <<DigitChars[(k % 10) + 1]>>
  IN digits[n]

\* Whether int(s) accepts the string s: decimal digits, single underscores
\* allowed between digits (inputs carry no sign and no white space).
IsIntLiteral(s) ==
  /\ Len(s) >= 1
  /\ IsIn(s[1], DigitChars)
  /\ IsIn(s[Len(s)], DigitChars)
  /\ \A i \in 1..Len(s) : IsIn(s[i], DigitChars) \/ s[i] = "_"
  /\ \A i \in 1..(Len(s) - 1) : ~(s[i] = "_" /\ s[i + 1] = "_")

\* int(s) of such a string: the value of its first k characters, for k = Len(s)
DigitsValue(s) ==
  LET val[k \in 0..Len(s)] ==
        IF k = 0 THEN 0
        ELSE IF s[k] = "_" THEN val[k - 1]
        ELSE 10 * val[k - 1] + (IndexIn(s[k], DigitChars) - 1)
  IN val[Len(s)]

(***************************************************************************)
(* The vocabularies of enums.py: each member's symbolic name, its          *)
(* canonical value (a string, or an integer for RecordFlags) and, for      *)
(* SType, the replacement values a deprecated member declares.             *)
(***************************************************************************)
\* enums.py:143  class HistoricalGateway(StringyMixin, str, Enum)
HistoricalGateway_members ==
  <<
    [name |-> <<"B", "O", "1">>, value |-> <<"h", "t", "t", "p", "s", ":", "/", "/", "h", "i", "s", "t", ".", "d", "a", "t", "a", "b", "e", "n", "t", "o", ".", "c", "o", "m">>, ivalue |-> 0, args |-> <<>>]
  >>

\* enums.py:151  class LiveGateway(StringyMixin, str, Enum)
LiveGateway_members ==
  <<
    [name |-> <<"O", "R", "I", "G", "I", "N">>, value |-> <<"o", "r", "i", "g", "i", "n">>, ivalue |-> 0, args |-> <<>>],
    [name |-> <<"N", "Y", "4">>, value |-> <<"n", "y", "4">>, ivalue |-> 0, args |-> <<>>],
    [name |-> <<"D", "C", "3">>, value |-> <<"d", "c", "3">>, ivalue |-> 0, args |-> <<>>]
  >>

\* enums.py:161  class FeedMode(StringyMixin, str, Enum)
FeedMode_members ==
  <<
    [name |-> <<"H", "I", "S", "T", "O", "R", "I", "C", "A", "L">>, value |-> <<"h", "i", "s", "t", "o", "r", "i", "c", "a", "l">>, ivalue |-> 0, args |-> <<>>],
    [name |-> <<"H", "I", "S", "T", "O", "R", "I", "C", "A", "L", "_", "S", "T", "R", "E", "A", "M", "I", "N", "G">>, value |-> <<"h", "i", "s", "t", "o", "r", "i", "c", "a", "l", "-", "s", "t", "r", "e", "a", "m", "i", "n", "g">>, ivalue |-> 0, args |-> <<>>],
    [name |-> <<"L", "I", "V", "E">>, value |-> <<"l", "i", "v", "e">>, ivalue |-> 0, args |-> <<>>]
  >>

\* enums.py:171  class Dataset(StringyMixin, str, Enum)
Dataset_members ==
  <<
    [name |-> <<"G", "L", "B", "X", "_", "M", "D", "P", "3">>, value |-> <<"G", "L", "B", "X", ".", "M", "D", "P", "3">>, ivalue |-> 0, args |-> <<>>],
    [name |-> <<"X", "N", "A", "S", "_", "I", "T", "C", "H">>, value |-> <<"X", "N", "A", "S", ".", "I", "T", "C", "H">>, ivalue |-> 0, args |-> <<>>]
  >>

\* enums.py:180  class Schema(StringyMixin, str, Enum)
Schema_members ==
  <<
    [name |-> <<"M", "B", "O">>, value |-> <<"m", "b", "o">>, ivalue |-> 0, args |-> <<>>],
    [name |-> <<"M", "B", "P", "_", "1">>, value |-> <<"m", "b", "p", "-", "1">>, ivalue |-> 0, args |-> <<>>],
    [name |-> <<"M", "B", "P", "_", "1", "0">>, value |-> <<"m", "b", "p", "-", "1", "0">>, ivalue |-> 0, args |-> <<>>],
    [name |-> <<"T", "B", "B", "O">>, value |-> <<"t", "b", "b", "o">>, ivalue |-> 0, args |-> <<>>],
    [name |-> <<"T", "R", "A", "D", "E", "S">>, value |-> <<"t", "r", "a", "d", "e", "s">>, ivalue |-> 0, args |-> <<>>],
    [name |-> <<"O", "H", "L", "C", "V", "_", "1", "S">>, value |-> <<"o", "h", "l", "c", "v", "-", "1", "s">>, ivalue |-> 0, args |-> <<>>],
    [name |-> <<"O", "H", "L", "C", "V", "_", "1", "M">>, value |-> <<"o", "h", "l", "c", "v", "-", "1", "m">>, ivalue |-> 0, args |-> <<>>],
    [name |-> <<"O", "H", "L", "C", "V", "_", "1", "H">>, value |-> <<"o", "h", "l", "c", "v", "-", "1", "h">>, ivalue |-> 0, args |-> <<>>],
    [name |-> <<"O", "H", "L", "C", "V", "_", "1", "D">>, value |-> <<"o", "h", "l", "c", "v", "-", "1", "d">>, ivalue |-> 0, args |-> <<>>],
    [name |-> <<"D", "E", "F", "I", "N", "I", "T", "I", "O", "N">>, value |-> <<"d", "e", "f", "i", "n", "i", "t", "i", "o", "n">>, ivalue |-> 0, args |-> <<>>],
    [name |-> <<"I", "M", "B", "A", "L", "A", "N", "C", "E">>, value |-> <<"i", "m", "b", "a", "l", "a", "n", "c", "e">>, ivalue |-> 0, args |-> <<>>],
    [name |-> <<"S", "T", "A", "T", "I", "S", "T", "I", "C", "S">>, value |-> <<"s", "t", "a", "t", "i", "s", "t", "i", "c", "s">>, ivalue |-> 0, args |-> <<>>],
    [name |-> <<"S", "T", "A", "T", "U", "S">>, value |-> <<"s", "t", "a", "t", "u", "s">>, ivalue |-> 0, args |-> <<>>],
    [name |-> <<"G", "A", "T", "E", "W", "A", "Y", "_", "E", "R", "R", "O", "R">>, value |-> <<"g", "a", "t", "e", "w", "a", "y", "_", "e", "r", "r", "o", "r">>, ivalue |-> 0, args |-> <<>>],
    [name |-> <<"S", "Y", "M", "B", "O", "L", "_", "M", "A", "P", "P", "I", "N", "G">>, value |-> <<"s", "y", "m", "b", "o", "l", "_", "m", "a", "p", "p", "i", "n", "g">>, ivalue |-> 0, args |-> <<>>]
  >>

\* enums.py:202  class Encoding(StringyMixin, str, Enum)
Encoding_members ==
  <<
    [name |-> <<"D", "B", "N">>, value |-> <<"d", "b", "n">>, ivalue |-> 0, args |-> <<>>],
    [name |-> <<"C", "S", "V">>, value |-> <<"c", "s", "v">>, ivalue |-> 0, args |-> <<>>],
    [name |-> <<"J", "S", "O", "N">>, value |-> <<"j", "s", "o", "n">>, ivalue |-> 0, args |-> <<>>]
  >>

\* enums.py:212  class Compression(StringyMixin, str, Enum)
Compression_members ==
  <<
    [name |-> <<"N", "O", "N", "E">>, value |-> <<"n", "o", "n", "e">>, ivalue |-> 0, args |-> <<>>],
    [name |-> <<"Z", "S", "T", "D">>, value |-> <<"z", "s", "t", "d">>, ivalue |-> 0, args |-> <<>>]
  >>

\* enums.py:221  class SplitDuration(StringyMixin, str, Enum)
SplitDuration_members ==
  <<
    [name |-> <<"D", "A", "Y">>, value |-> <<"d", "a", "y">>, ivalue |-> 0, args |-> <<>>],
    [name |-> <<"W", "E", "E", "K">>, value |-> <<"w", "e", "e", "k">>, ivalue |-> 0, args |-> <<>>],
    [name |-> <<"M", "O", "N", "T", "H">>, value |-> <<"m", "o", "n", "t", "h">>, ivalue |-> 0, args |-> <<>>],
    [name |-> <<"N", "O", "N", "E">>, value |-> <<"n", "o", "n", "e">>, ivalue |-> 0, args |-> <<>>]
  >>

\* enums.py:232  class Packaging(StringyMixin, str, Enum)
Packaging_members ==
  <<
    [name |-> <<"N", "O", "N", "E">>, value |-> <<"n", "o", "n", "e">>, ivalue |-> 0, args |-> <<>>],
    [name |-> <<"Z", "I", "P">>, value |-> <<"z", "i", "p">>, ivalue |-> 0, args |-> <<>>],
    [name |-> <<"T", "A", "R">>, value |-> <<"t", "a", "r">>, ivalue |-> 0, args |-> <<>>]
  >>

\* enums.py:242  class Delivery(StringyMixin, str, Enum)
Delivery_members ==
  <<
    [name |-> <<"D", "O", "W", "N", "L", "O", "A", "D">>, value |-> <<"d", "o", "w", "n", "l", "o", "a", "d">>, ivalue |-> 0, args |-> <<>>],
    [name |-> <<"S", "3">>, value |-> <<"s", "3">>, ivalue |-> 0, args |-> <<>>],
    [name |-> <<"D", "I", "S", "K">>, value |-> <<"d", "i", "s", "k">>, ivalue |-> 0, args |-> <<>>]
  >>

\* enums.py:261  class SType(StringyMixin, str, Enum, metaclass=DeprecatedAccess)
SType_members ==
  <<
    [name |-> <<"P", "R", "O", "D", "U", "C", "T", "_", "I", "D">>, value |-> <<"p", "r", "o", "d", "u", "c", "t", "_", "i", "d">>, ivalue |-> 0, args |-> <<<<"i", "n", "s", "t", "r", "u", "m", "e", "n", "t", "_", "i", "d">>>>],
    [name |-> <<"N", "A", "T", "I", "V", "E">>, value |-> <<"n", "a", "t", "i", "v", "e">>, ivalue |-> 0, args |-> <<<<"r", "a", "w", "_", "s", "y", "m", "b", "o", "l">>>>],
    [name |-> <<"S", "M", "A", "R", "T">>, value |-> <<"s", "m", "a", "r", "t">>, ivalue |-> 0, args |-> <<<<"p", "a", "r", "e", "n", "t">>, <<"c", "o", "n", "t", "i", "n", "u", "o", "u", "s">>>>],
    [name |-> <<"I", "N", "S", "T", "R", "U", "M", "E", "N", "T", "_", "I", "D">>, value |-> <<"i", "n", "s", "t", "r", "u", "m", "e", "n", "t", "_", "i", "d">>, ivalue |-> 0, args |-> <<>>],
    [name |-> <<"R", "A", "W", "_", "S", "Y", "M", "B", "O", "L">>, value |-> <<"r", "a", "w", "_", "s", "y", "m", "b", "o", "l">>, ivalue |-> 0, args |-> <<>>],
    [name |-> <<"P", "A", "R", "E", "N", "T">>, value |-> <<"p", "a", "r", "e", "n", "t">>, ivalue |-> 0, args |-> <<>>],
    [name |-> <<"C", "O", "N", "T", "I", "N", "U", "O", "U", "S">>, value |-> <<"c", "o", "n", "t", "i", "n", "u", "o", "u", "s">>, ivalue |-> 0, args |-> <<>>]
  >>

\* enums.py:293  class RollRule(StringyMixin, str, Enum)
RollRule_members ==
  <<
    [name |-> <<"V", "O", "L", "U", "M", "E">>, value |-> <<"v", "o", "l", "u", "m", "e">>, ivalue |-> 0, args |-> <<>>],
    [name |-> <<"O", "P", "E", "N", "_", "I", "N", "T", "E", "R", "E", "S", "T">>, value |-> <<"o", "p", "e", "n", "_", "i", "n", "t", "e", "r", "s", "t">>, ivalue |-> 0, args |-> <<>>],
    [name |-> <<"C", "A", "L", "E", "N", "D", "A", "R">>, value |-> <<"c", "a", "l", "e", "n", "d", "a", "r">>, ivalue |-> 0, args |-> <<>>]
  >>

\* enums.py:303  class SymbologyResolution(StringyMixin, str, Enum)
SymbologyResolution_members ==
  <<
    [name |-> <<"O", "K">>, value |-> <<"o", "k">>, ivalue |-> 0, args |-> <<>>],
    [name |-> <<"P", "A", "R", "T", "I", "A", "L">>, value |-> <<"p", "a", "r", "t", "i", "a", "l">>, ivalue |-> 0, args |-> <<>>],
    [name |-> <<"N", "O", "T", "_", "F", "O", "U", "N", "D">>, value |-> <<"n", "o", "t", "_", "f", "o", "u", "n", "d">>, ivalue |-> 0, args |-> <<>>]
  >>

\* enums.py:320  class RecordFlags(StringyMixin, IntFlag)
RecordFlags_members ==
  <<
    [name |-> <<"F", "_", "L", "A", "S", "T">>, value |-> <<>>, ivalue |-> 128, args |-> <<>>],
    [name |-> <<"F", "_", "S", "N", "A", "P", "S", "H", "O", "T">>, value |-> <<>>, ivalue |-> 32, args |-> <<>>],
    [name |-> <<"F", "_", "M", "B", "P">>, value |-> <<>>, ivalue |-> 16, args |-> <<>>],
    [name |-> <<"F", "_", "B", "A", "D", "_", "T", "S", "_", "R", "E", "C", "V">>, value |-> <<>>, ivalue |-> 8, args |-> <<>>]
  >>


VocabNames ==
  {"HistoricalGateway", "LiveGateway", "FeedMode", "Dataset", "Schema",
   "Encoding", "Compression", "SplitDuration", "Packaging", "Delivery",
   "SType", "RollRule", "SymbologyResolution", "RecordFlags"}

\* cls._member_map_ in definition order (also the order of iteration)
Members(V) ==
  CASE V = "HistoricalGateway" -> HistoricalGateway_members
    [] V = "LiveGateway" -> LiveGateway_members
    [] V = "FeedMode" -> FeedMode_members
    [] V = "Dataset" -> Dataset_members
    [] V = "Schema" -> Schema_members
    [] V = "Encoding" -> Encoding_members
    [] V = "Compression" -> Compression_members
    [] V = "SplitDuration" -> SplitDuration_members
    [] V = "Packaging" -> Packaging_members
    [] V = "Delivery" -> Delivery_members
    [] V = "SType" -> SType_members
    [] V = "RollRule" -> RollRule_members
    [] V = "SymbologyResolution" -> SymbologyResolution_members
    [] V = "RecordFlags" -> RecordFlags_members

MemberIdx(V) == 1..Len(Members(V))

\* issubclass(enum_type, int): the IntFlag vocabulary; every other one is a str
IsIntEnum(V) == V = "RecordFlags"

\* isinstance(self, Flag)
IsFlagEnum(V) == V = "RecordFlags"

\* metaclass=DeprecatedAccess
HasDeprecatedAccess(V) == V = "SType"

(***************************************************************************)
(* Values handed to a vocabulary: None, a string, an integer, or a member  *)
(* of the vocabulary itself (by its index in Members).                     *)
(***************************************************************************)
NoneIn == [tag |-> "none", s |-> <<>>, n |-> 0, m |-> 0]

StrIn(str) == [tag |-> "str", s |-> str, n |-> 0, m |-> 0]

IntIn(num) == [tag |-> "int", s |-> <<>>, n |-> num, m |-> 0]

MemberIn(i) == [tag |-> "member", s |-> <<>>, n |-> 0, m |-> i]

\* A pseudo-member of RecordFlags (a composite or reserved value): no name
PseudoMember(v) == [name |-> <<>>, value |-> <<>>, ivalue |-> v, args |-> <<>>]

(***************************************************************************)
(* StringyMixin.__str__                                                    *)
(***************************************************************************)
\* Flag values are integers of at most BitWidth bits
BitWidth == 9

\* Bit i of the integer n >= 0
Bit(n, i) == (n \div (2 ^ i)) % 2 = 1

\* Flag.__contains__, `f in self`: other._value_ & self._value_ == other._value_,
\* that is, every bit of f is a bit of self
FlagContains(self, f) ==
  \A i \in 0..(BitWidth - 1) : Bit(f.ivalue, i) => Bit(self.ivalue, i)

NamesLower(ms) == [i \in 1..Len(ms) |-> LowerStr(ms[i].name)]

Stringy_str_names_upper(isFlag, isInt, members, self) ==
  IF isFlag
    THEN Join(<<",", " ">>,
              [i \in 1..Len(SelectSeq(members, LAMBDA f : FlagContains(self, f)))
                 |-> SelectSeq(members, LAMBDA f : FlagContains(self, f))[i].name])
    ELSE IF isInt THEN self.name
    ELSE UpperStr(self.value)

\* isFlag: isinstance(self, Flag); isInt: isinstance(self, int);
\* members: the members of self.__class__ in iteration order
Stringy_str(isFlag, isInt, members, self) ==
  IF isFlag
    THEN Join(<<",", " ">>, NamesLower(SelectSeq(members, LAMBDA f : FlagContains(self, f))))
    ELSE IF isInt THEN LowerStr(self.name)
    ELSE self.value

\* str(m) for the member m of vocabulary V
MemberStr(V, m) == Stringy_str(IsFlagEnum(V), IsIntEnum(V), Members(V), m)

(***************************************************************************)
(* coercible: coerced_new                                                  *)
(***************************************************************************)
NoneStr == <<"N", "o", "n", "e">>

\* str(value)
PyStr(V, x) ==
  CASE x.tag = "str" -> x.s
    [] x.tag = "int" -> DecimalStr(x.n)
    [] x.tag = "member" -> MemberStr(V, Members(V)[x.m])
    [] x.tag = "none" -> NoneStr

\* int(value): [ok |-> FALSE] stands for the ValueError int() raises
PyInt(V, x) ==
  CASE x.tag = "int" -> [ok |-> TRUE, n |-> x.n]
    [] x.tag = "member" -> [ok |-> TRUE, n |-> Members(V)[x.m].ivalue]
    [] x.tag = "str" ->
         IF IsIntLiteral(x.s) THEN [ok |-> TRUE, n |-> DigitsValue(x.s)]
         ELSE [ok |-> FALSE, n |-> 0]
    [] x.tag = "none" -> [ok |-> FALSE, n |-> 0]

cast_str(V, x) == LowerStr(PyStr(V, x))

\* Index of the member whose canonical value is v (0: none); @unique makes it one
ValueIndex(V, v) ==
  IF \E i \in MemberIdx(V) : Members(V)[i].value = v
    THEN CHOOSE i \in MemberIdx(V) : Members(V)[i].value = v
    ELSE 0

IntValueIndex(V, n) ==
  IF \E i \in MemberIdx(V) : Members(V)[i].ivalue = n
    THEN CHOOSE i \in MemberIdx(V) : Members(V)[i].ivalue = n
    ELSE 0

NameIndex_of_next_member(V, name) ==
  IF \E i \in MemberIdx(V) : Members(V)[i].name = name
    THEN ((CHOOSE i \in MemberIdx(V) : Members(V)[i].name = name) % Len(Members(V))) + 1
    ELSE 0

\* enum._member_map_.get(name): index of the member of that name (0: None)
NameIndex(V, name) ==
  IF \E i \in MemberIdx(V) : Members(V)[i].name = name
    THEN CHOOSE i \in MemberIdx(V) : Members(V)[i].name = name
    ELSE 0

name_to_try_no_upper(V, x) == ReplaceChar(ReplaceChar(PyStr(V, x), ".", "_"), "-", "_")

name_to_try(V, x) == UpperStr(ReplaceChar(ReplaceChar(PyStr(V, x), ".", "_"), "-", "_"))

enum_values_names(V, pseudo) == [i \in MemberIdx(V) |-> Members(V)[i].name]

\* tuple(value for value in enum._value2member_map_), each as the text the
\* message shows; pseudo: the pseudo-members RecordFlags has created so far
enum_values(V, pseudo) ==
  IF IsIntEnum(V)
    THEN [i \in MemberIdx(V) |-> DecimalStr(Members(V)[i].ivalue)]
           \o [i \in 1..Len(pseudo) |-> DecimalStr(pseudo[i])]
    ELSE [i \in MemberIdx(V) |-> Members(V)[i].value]

InSeq(e, sq) == \E i \in 1..Len(sq) : sq[i] = e

Returned(i) ==
  [kind |-> "member", idx |-> i, ivalue |-> 0, msgIn |-> <<>>, msgValues |-> <<>>]

ReturnedPseudo(v) ==
  [kind |-> "pseudo", idx |-> 0, ivalue |-> v, msgIn |-> <<>>, msgValues |-> <<>>]

Raised(exc, shown, values) ==
  [kind |-> exc, idx |-> 0, ivalue |-> 0, msgIn |-> shown, msgValues |-> values]

is_None_never(x) == FALSE

\* `value is None`
is_None(x) == x.tag = "none"

coerced_new_without_names(V, x, pseudo) ==
  Raised("ValueError", PyStr(V, x), enum_values(V, pseudo))

\* The except-branch of coerced_new: the lookup by symbolic name
coerced_new_by_name(V, x, pseudo) ==
  LET named == NameIndex(V, name_to_try(V, x))
  IN IF named # 0 THEN Returned(named)
     ELSE Raised("ValueError", PyStr(V, x), enum_values(V, pseudo))

\* _new(enum, coerce_fn(value)): Enum.__new__'s lookup by value; for the
\* IntFlag every integer is a value (a composite or reserved one is a
\* pseudo-member), for a str vocabulary a value that is not one raises
\* ValueError, which coerced_new catches
coerced_new(V, x, pseudo) ==
  IF is_None(x) THEN Raised("TypeError", PyStr(V, x), <<>>)
  ELSE IF IsIntEnum(V)
    THEN LET n == PyInt(V, x)
         IN IF n.ok
              THEN IF IntValueIndex(V, n.n) # 0
                     THEN Returned(IntValueIndex(V, n.n))
                     ELSE ReturnedPseudo(n.n)
              ELSE coerced_new_by_name(V, x, pseudo)
    ELSE LET found == ValueIndex(V, cast_str(V, x))
         IN IF found # 0 THEN Returned(found)
            ELSE coerced_new_by_name(V, x, pseudo)

\* Flag._missing_ keeps the pseudo-member it creates in _value2member_map_
cache_after(V, r, pseudo) ==
  IF r.kind = "pseudo" /\ ~InSeq(r.ivalue, pseudo) THEN Append(pseudo, r.ivalue) ELSE pseudo

(***************************************************************************)
(* SType's deprecation shim: SType.__new__, SType.__deprecated and the     *)
(* metaclass DeprecatedAccess                                              *)
(***************************************************************************)
on_access_never(V, i) == FALSE

on_access_always(V, i) == TRUE

\* variant._on_access = variant.__deprecated if args else None
on_access(V, i) == Members(V)[i].args # <<>>

deprecated_message_of_itself(V, i) ==
  [value |-> Members(V)[i].value, others |-> Members(V)[i].value]

\* The text SType.__deprecated hands to warnings.warn:
\* "SType of {value} is deprecated; use {' or '.join(args)}"
deprecated_message(V, i) ==
  [value |-> Members(V)[i].value,
   others |-> Join(<<" ", "o", "r", " ">>, Members(V)[i].args)]

NoMessage == [value |-> <<>>, others |-> <<>>]

\* The members the source marks "# Deprecated for ..."
DeprecatedNames ==
  {<<"P", "R", "O", "D", "U", "C", "T", "_", "I", "D">>,
   <<"N", "A", "T", "I", "V", "E">>,
   <<"S", "M", "A", "R", "T">>}

\* An attribute of the class that is no member (_member_map_, __new__, ...)
OtherAttrs ==
  {<<"_", "m", "e", "m", "b", "e", "r", "_", "m", "a", "p", "_">>,
   <<"_", "_", "n", "e", "w", "_", "_">>}

SType_eq_by_replacement(V, i, j) ==
  \/ MemberStr(V, Members(V)[i]) = MemberStr(V, Members(V)[j])
  \/ InSeq(MemberStr(V, Members(V)[j]), Members(V)[i].args)
  \/ InSeq(MemberStr(V, Members(V)[i]), Members(V)[j].args)

\* SType.__eq__: str(self) == str(other)
SType_eq(V, i, j) == MemberStr(V, Members(V)[i]) = MemberStr(V, Members(V)[j])

(***************************************************************************)
(* Bounds                                                                  *)
(***************************************************************************)
\* Deprecation warnings emitted in one run
MaxWarnings == 2

\* Pseudo-members RecordFlags may cache in one run
MaxCache == 1

\* Case variants toggle the case of one character among the first MaxToggle
MaxToggle == 1

\* Integers 0..MaxSmallInt are handed to RecordFlags (besides its values)
MaxSmallInt == 3

(***************************************************************************)
(* The inputs a run draws from                                             *)
(***************************************************************************)
Min(a, b) == IF a < b THEN a ELSE b

ToggleAt(s, k) == [i \in 1..Len(s) |-> IF i = k THEN ToggleChar(s[i]) ELSE s[i]]

CaseVariants(s) ==
  {s, LowerStr(s), UpperStr(s)} \cup {ToggleAt(s, k) : k \in 1..Min(Len(s), MaxToggle)}

\* The name with each "_" kept or written "-" or "."
SepVariants(s) ==
  LET variants[k \in 0..Len(s)] ==
        IF k = 0 THEN {<<>>}
        ELSE {Append(r, h) : r \in variants[k - 1],
                             h \in (IF s[k] = "_" THEN {"_", "-", "."} ELSE {s[k]})}
  IN variants[Len(s)]

NameSpellings(V, i) ==
  UNION {CaseVariants(t) : t \in SepVariants(Members(V)[i].name)}

ValueSpellings(V, i) ==
  IF IsIntEnum(V) THEN {DecimalStr(Members(V)[i].ivalue)}
  ELSE CaseVariants(Members(V)[i].value)

\* Every supported way of designating member i of V
Spellings(V, i) ==
  {StrIn(s) : s \in ValueSpellings(V, i) \cup NameSpellings(V, i)}
    \cup {MemberIn(i)}
    \cup (IF IsIntEnum(V) THEN {IntIn(Members(V)[i].ivalue)} ELSE {})

OtherStrings ==
  {<<>>, <<"i", "n", "v", "a", "l", "i", "d">>, <<"n", "o", "n", "e">>,
   <<"3">>, <<"1", "6", "0">>, <<"d", "b", "n", "_">>, <<"M", "B", "P", " ", "1">>}

OtherInts == (0..MaxSmallInt) \cup {160, 255}

InputsOf(V) ==
  UNION {Spellings(V, i) : i \in MemberIdx(V)}
    \cup {NoneIn}
    \cup {StrIn(s) : s \in OtherStrings}
    \cup {StrIn(Members(V)[i].name \o <<"_">>) : i \in MemberIdx(V)}
    \cup (IF IsIntEnum(V) THEN {IntIn(n) : n \in OtherInts} ELSE {})

\* The function f as an explicit table of its values, computed once
Table(f) == f @@ <<>>

Inputs == Table([V \in VocabNames |-> InputsOf(V)])

\* The integers of the inputs that are no value of a member of V
PseudoInts(V) ==
  {n \in {PyInt(V, x).n : x \in {y \in Inputs[V] : PyInt(V, y).ok}} :
     IntValueIndex(V, n) = 0}

\* The contents RecordFlags' cache of pseudo-members can have: the sequences
\* without repetition of at most MaxCache of them; no other vocabulary has any
CachesOf(V) ==
  IF IsIntEnum(V)
    THEN {c \in UNION {[1..k -> PseudoInts(V)] : k \in 0..MaxCache} :
            \A i, j \in 1..Len(c) : c[i] = c[j] => i = j}
    ELSE {<<>>}

Caches == Table([V \in VocabNames |-> CachesOf(V)])

\* coerced_new over the inputs of a run, computed once
Coerced ==
  Table([V \in VocabNames |->
     Table([x \in Inputs[V] |->
        Table([c \in Caches[V] |-> coerced_new(V, x, c)])])])


AttrNamesOf(V) ==
  {Members(V)[i].name : i \in MemberIdx(V)}
    \cup {LowerStr(Members(V)[i].name) : i \in MemberIdx(V)}
    \cup OtherAttrs

AttrNames == Table([V \in VocabNames |-> AttrNamesOf(V)])

(***************************************************************************)
(* State                                                                   *)
(***************************************************************************)
VARIABLES
  vocab,        \* the vocabulary the run exercises
  last,         \* the latest operation on it and its outcome
  warned,       \* DeprecationWarnings emitted so far
  depReturned,  \* operations so far that returned a member of DeprecatedNames
  cache,        \* pseudo-members in RecordFlags._value2member_map_, oldest first
  yielded       \* the members the latest iteration over the vocabulary gave

evars == <<vocab, last, warned, depReturned, cache, yielded>>

VARIABLES
  key,        \* self._key, set by __init__
  pc,         \* where the call in progress stands
  call,       \* the operation called and its arguments
  sent,       \* HTTP requests the call has issued
  request,    \* the request issued: its credentials and timeouts
  session,    \* the aiohttp.ClientSession: "none", "open", "closed"
  conn,       \* the response (connection): "none", "open", "closed"
  response,   \* the response received: status, body chunks, body kind
  rest,       \* the chunks the stream loop has still to read
  zwriter,    \* the zstd stream writer: "none", "open", "closed"
  sink,       \* the bytes written to binary_io
  logged,     \* whether log_info("No data found for query.") ran
  outcome     \* how the call ended: NoError while running, else its result

hvars == <<key, pc, call, sent, request, session, conn, response, rest,
           zwriter, sink, logged, outcome>>

VARIABLES
  built,      \* the latest calls of _timeseries_params, newest first
  files,      \* the paths at which the file system holds a file
  io          \* the latest call of _create_io and its outcome

bvars == <<built, files, io>>

vars == <<evars, hvars, bvars>>

NoOp ==
  [op |-> "none", vocab |-> "", input |-> NoneIn, attr |-> <<>>, asFlag |-> FALSE,
   kind |-> "none", idx |-> 0, ivalue |-> 0, msgIn |-> <<>>, msgValues |-> <<>>,
   text |-> <<>>, warns |-> 0, message |-> NoMessage]

\* The vocabularies are separate classes that share no state: a run
\* exercises one of them, as the program has it after import
FreshEnum ==
  /\ last = NoOp
  /\ warned = 0
  /\ depReturned = 0
  /\ cache = <<>>
  /\ yielded = <<>>

InitEnum ==
  /\ vocab \in VocabNames
  /\ FreshEnum

IsDeprecatedResult(V, r) ==
  r.kind = "member" /\ Members(V)[r.idx].name \in DeprecatedNames

\* What an access through DeprecatedAccess does with the object obtained:
\* `if isinstance(obj, Enum) and obj._on_access: obj._on_access()`
Warns(V, r) == HasDeprecatedAccess(V) /\ r.kind = "member" /\ on_access(V, r.idx)

Record(op, V, x, attr, r) ==
  /\ V \in VocabNames
  /\ Warns(V, r) => warned < MaxWarnings
  /\ last' = [NoOp EXCEPT !.op = op, !.vocab = V, !.input = x, !.attr = attr,
                          !.kind = r.kind, !.idx = r.idx, !.ivalue = r.ivalue,
                          !.msgIn = r.msgIn, !.msgValues = r.msgValues,
                          !.warns = IF Warns(V, r) THEN 1 ELSE 0,
                          !.message = IF Warns(V, r)
                                        THEN deprecated_message(V, r.idx)
                                        ELSE NoMessage]
  /\ warned' = warned + (IF Warns(V, r) THEN 1 ELSE 0)
  /\ depReturned' = depReturned
       + (IF HasDeprecatedAccess(V) /\ IsDeprecatedResult(V, r) THEN 1 ELSE 0)
  /\ yielded' = <<>>
  /\ UNCHANGED <<vocab, hvars, bvars>>

\* V(x): EnumMeta.__call__ -> coerced_new, through DeprecatedAccess.__call__
\* for SType
Call(V, x) ==
  LET r == Coerced[V][x][cache]
  IN /\ Len(cache_after(V, r, cache)) <= MaxCache
     /\ Record("call", V, x, <<>>, r)
     /\ cache' = cache_after(V, r, cache)

\* str(m) of every named member m, as an input of the call
StrOf ==
  Table([V \in VocabNames |->
           Table([i \in MemberIdx(V) |-> StrIn(MemberStr(V, Members(V)[i]))])])

\* V(str(m)) for the member m of index i: StringyMixin.__str__, then the call
RoundTrip(V, i) ==
  LET x == StrOf[V][i]
      r == Coerced[V][x][cache]
  IN /\ Len(cache_after(V, r, cache)) <= MaxCache
     /\ Record("roundtrip", V, x, Members(V)[i].name, r)
     /\ cache' = cache_after(V, r, cache)

\* super().__getattribute__(name)
getattribute(V, name) ==
  IF NameIndex(V, name) # 0 THEN Returned(NameIndex(V, name))
  ELSE IF name \in OtherAttrs THEN Raised("other", name, <<>>)
  ELSE Raised("AttributeError", name, <<>>)

\* SType.<name>: DeprecatedAccess.__getattribute__
GetAttr(V, name) ==
  /\ HasDeprecatedAccess(V)
  /\ Record("getattr", V, NoneIn, name, getattribute(V, name))
  /\ cache' = cache

\* super().__getitem__(name): cls._member_map_[name]
getitem(V, name) ==
  IF NameIndex(V, name) # 0 THEN Returned(NameIndex(V, name))
  ELSE Raised("KeyError", name, <<>>)

\* SType[name]: DeprecatedAccess.__getitem__
GetItem(V, name) ==
  /\ HasDeprecatedAccess(V)
  /\ Record("getitem", V, NoneIn, name, getitem(V, name))
  /\ cache' = cache

\* The objects str() is applied to: the members of V and, for RecordFlags,
\* the pseudo-members of the integers OtherInts
StrSubjects(V) ==
  {Members(V)[i] : i \in MemberIdx(V)}
    \cup (IF IsFlagEnum(V)
            THEN {PseudoMember(n) : n \in {k \in OtherInts : IntValueIndex(V, k) = 0}}
            ELSE {})

\* str(self). enums.py defines no integer vocabulary that is not a Flag, so
\* the isinstance(self, int) branch of StringyMixin.__str__ is exercised on
\* the named members of RecordFlags taken as members of a plain integer
\* enumeration (asFlag = FALSE).
Stringify(V, self, asFlag) ==
  /\ asFlag = IsFlagEnum(V) \/ (IsIntEnum(V) /\ self.name # <<>>)
  /\ last' = [NoOp EXCEPT !.op = "str", !.vocab = V, !.asFlag = asFlag,
                          !.kind = "text",
                          !.idx = NameIndex(V, self.name), !.ivalue = self.ivalue,
                          !.text = Stringy_str(asFlag, IsIntEnum(V), Members(V), self)]
  /\ yielded' = <<>>
  /\ UNCHANGED <<vocab, warned, depReturned, cache, hvars, bvars>>

\* EnumMeta.__iter__ and the __members__ mapping give the members in
\* declaration order. DeprecatedAccess overrides neither: __members__ is read
\* through __getattribute__, which finds a mapping and no Enum, so _on_access
\* runs for no member
members_of(V) == [i \in MemberIdx(V) |-> i]

Yield(op, V) ==
  /\ V \in VocabNames
  /\ last' = [NoOp EXCEPT !.op = op, !.vocab = V, !.kind = "members"]
  /\ yielded' = members_of(V)
  /\ UNCHANGED <<vocab, warned, depReturned, cache, hvars, bvars>>

\* list(V), for m in V
Iterate(V) == Yield("iter", V)

\* V.__members__.values()
ReadMembers(V) == Yield("members", V)

(***************************************************************************)
(* HTTP transport: databento/historical/http.py                            *)
(***************************************************************************)
\* _NO_DATA_FOUND = b"No data found for query."
NO_DATA_FOUND ==
  <<"N", "o", " ", "d", "a", "t", "a", " ", "f", "o", "u", "n", "d", " ", "f", "o", "r", " ", "q", "u", "e", "r", "y", ".">>

\* The placeholder _check_access_key refuses, and a key that is not it
YOUR_ACCESS_KEY == "YOUR_ACCESS_KEY"

Keys == {YOUR_ACCESS_KEY, "db-key"}

\* BentoHttpAPI.TIMEOUT
TIMEOUT == 100

\* Response statuses MinStatus..MaxStatus are drawn, besides 200 and 302
MinStatus == 396

MaxStatus == 603

\* A streamed body arrives in at most MaxChunks chunks
MaxChunks == 2

\* A body equal to the sentinel may arrive split after its SplitAt-th byte
SplitAt == 8

\* 200 and 302, and every status around the 4xx and 5xx ranges
Statuses == {200, 302} \cup (MinStatus..MaxStatus)

BlockingOps == {"_get", "_post", "_stream"}

AsyncOps == {"_get_async", "_stream_async"}

StreamOps == {"_stream", "_stream_async"}

Ops == BlockingOps \cup AsyncOps

\* What response.json() finds in the body
BodyKinds == {"json_detail", "json_no_detail", "json_non_object", "not_json"}

SentinelPieces ==
  {NO_DATA_FOUND,
   SubSeq(NO_DATA_FOUND, 1, SplitAt),
   SubSeq(NO_DATA_FOUND, SplitAt + 1, Len(NO_DATA_FOUND)),
   NO_DATA_FOUND \o <<"d">>}

\* The chunks a body is made of: the sentinel, its two pieces, the sentinel
\* followed by a byte, and a chunk of other data
ChunkPool == SentinelPieces \cup {<<"d">>}

ChunkSeqs == UNION {[1..n -> ChunkPool] : n \in 0..MaxChunks}

\* Only a stream reads the body chunk by chunk
ChunkSeqsOf(op) == IF op \in StreamOps THEN ChunkSeqs ELSE {<<>>}

Concat(chunks) ==
  LET cat[k \in 0..Len(chunks)] == IF k = 0 THEN <<>> ELSE cat[k - 1] \o chunks[k]
  IN cat[Len(chunks)]

\* A body holding text of the sentinel is no JSON document
BodyKindsOf(chunks) ==
  IF \E i \in 1..Len(chunks) : chunks[i] \in SentinelPieces
    THEN {"not_json"}
    ELSE BodyKinds

is_placeholder_never(k) == FALSE

\* self._key == "YOUR_ACCESS_KEY"
is_placeholder(k) == k = YOUR_ACCESS_KEY

is_400_series_error(status) == status \div 100 = 4

is_500_series_error(status) == status \div 100 = 5

NoError == [class |-> "none", http_status |-> 0, message |-> "none"]

BentoError(class, status, message) ==
  [class |-> class, http_status |-> status, message |-> message]

\* The try block of check_http_error: response.json(), json.get("detail"),
\* except JSONDecodeError. A JSON body that is no object has no .get
blocking_error(class, status, body) ==
  CASE body = "json_detail" -> BentoError(class, status, "detail")
    [] body = "json_no_detail" -> BentoError(class, status, "None")
    [] body = "not_json" -> BentoError(class, status, "None")
    [] body = "json_non_object" -> BentoError("AttributeError", 0, "none")

\* check_http_error(response): the error it raises (NoError: it returns)
check_http_error(status, body) ==
  IF is_500_series_error(status) THEN blocking_error("BentoServerError", status, body)
  ELSE IF is_400_series_error(status) THEN blocking_error("BentoClientError", status, body)
  ELSE NoError

\* json = await response.json(); message=json["detail"], with no try block
async_error(class, status, body) ==
  CASE body = "json_detail" -> BentoError(class, status, "detail")
    [] body = "json_no_detail" -> BentoError("KeyError", 0, "none")
    [] body = "not_json" -> BentoError("JSONDecodeError", 0, "none")
    [] body = "json_non_object" -> BentoError("TypeError", 0, "none")

\* check_http_error_async(response)
check_http_error_async(status, body) ==
  IF is_500_series_error(status) THEN async_error("BentoServerError", status, body)
  ELSE IF is_400_series_error(status) THEN async_error("BentoClientError", status, body)
  ELSE NoError

NoCall == [op |-> "none", basic_auth |-> FALSE, decompress |-> FALSE]

NoRequest ==
  [method |-> "none", user |-> "", password |-> <<>>, auth |-> FALSE,
   timeout |-> <<>>, stream |-> FALSE]

NoResponse == [status |-> 0, chunks |-> <<>>, body |-> "unread"]

Returns == [class |-> "returned", http_status |-> 0, message |-> "none"]

IdleCall ==
  /\ call = NoCall
  /\ sent = 0
  /\ request = NoRequest
  /\ session = "none"
  /\ conn = "none"
  /\ response = NoResponse
  /\ rest = <<>>
  /\ zwriter = "none"
  /\ sink = <<>>
  /\ logged = FALSE
  /\ outcome = NoError

NoIo ==
  [op |-> "none", path |-> <<>>, overwrite |-> FALSE, before |-> {},
   events |-> <<>>, result |-> "none"]

\* No parameter list built, no container created
IdleBuild ==
  /\ built = <<>>
  /\ files = {}
  /\ io = NoIo

\* An Optional value: <<>> is None, <<v>> is the value v
Unset == <<>>

Some(v) == <<v>>

\* limit takes the values None and 0..MaxLimit
MaxLimit == 1

\* databento/common/parsing.py is not among the sources modelled; its three
\* helpers are taken by their names and signatures: an Enum or a str gives a
\* lower-case str, and None gives None
enum_or_str_lowercase(d) ==
  IF d.tag = "member" THEN LowerStr(Dataset_members[d.m].value) ELSE LowerStr(d.s)

maybe_symbols_list_to_string(symbols) ==
  IF symbols = Unset THEN Unset ELSE Some(UpperStr(Join(<<",">>, symbols[1])))

maybe_datetime_to_string(value) == value

Pair(k, v) == [k |-> k, v |-> v]

\* The arguments _timeseries_params is called with; the enum arguments are
\* indices into their vocabularies
DefaultSTypeOut == NameIndex("SType", <<"P", "R", "O", "D", "U", "C", "T", "_", "I", "D">>)

ArgSets ==
  [dataset : {MemberIn(1), StrIn(Dataset_members[1].value)},
   symbols : {Unset} \cup {Some(l) : l \in {<<<<"e", "s", "h", "1">>, <<"n", "q">>>>}},
   schema : {1},
   start : {Unset, Some(<<"2", "0", "2", "0">>)},
   end : {Unset, Some(<<"2", "0", "2", "1">>)},
   limit : {Unset} \cup {Some(n) : n \in 0..MaxLimit},
   encoding : {1},
   compression : {Len(Compression_members)},
   stype_in : {Len(SType_members)},
   stype_out : {DefaultSTypeOut}]

timeseries_params_limit_first(a) ==
  (IF a.limit # Unset THEN <<Pair("limit", Some(DecimalStr(a.limit[1])))>> ELSE <<>>)
    \o <<Pair("dataset", Some(enum_or_str_lowercase(a.dataset))),
         Pair("symbols", maybe_symbols_list_to_string(a.symbols)),
         Pair("schema", Some(Schema_members[a.schema].value)),
         Pair("start", maybe_datetime_to_string(a.start)),
         Pair("end", maybe_datetime_to_string(a.end)),
         Pair("encoding", Some(Encoding_members[a.encoding].value)),
         Pair("compression", Some(Compression_members[a.compression].value)),
         Pair("stype_in", Some(SType_members[a.stype_in].value)),
         Pair("stype_out", Some(SType_members[a.stype_out].value))>>

timeseries_params_unset_dropped(a) ==
  SelectSeq(<<Pair("dataset", Some(enum_or_str_lowercase(a.dataset))),
              Pair("symbols", maybe_symbols_list_to_string(a.symbols)),
              Pair("schema", Some(Schema_members[a.schema].value)),
              Pair("start", maybe_datetime_to_string(a.start)),
              Pair("end", maybe_datetime_to_string(a.end)),
              Pair("encoding", Some(Encoding_members[a.encoding].value)),
              Pair("compression", Some(Compression_members[a.compression].value)),
              Pair("stype_in", Some(SType_members[a.stype_in].value)),
              Pair("stype_out", Some(SType_members[a.stype_out].value))>>,
            LAMBDA x : x.v # Unset)

\* BentoHttpAPI._timeseries_params: the nine pairs of the list literal, then
\* `if limit is not None: params.append(("limit", str(limit)))`
timeseries_params(a) ==
  <<Pair("dataset", Some(enum_or_str_lowercase(a.dataset))),
    Pair("symbols", maybe_symbols_list_to_string(a.symbols)),
    Pair("schema", Some(Schema_members[a.schema].value)),
    Pair("start", maybe_datetime_to_string(a.start)),
    Pair("end", maybe_datetime_to_string(a.end)),
    Pair("encoding", Some(Encoding_members[a.encoding].value)),
    Pair("compression", Some(Compression_members[a.compression].value)),
    Pair("stype_in", Some(SType_members[a.stype_in].value)),
    Pair("stype_out", Some(SType_members[a.stype_out].value))>>
    \o (IF a.limit # Unset THEN <<Pair("limit", Some(DecimalStr(a.limit[1])))>> ELSE <<>>)

\* _stream_async: params=[x for x in params if x[1] is not None]
params_not_none(params) == SelectSeq(params, LAMBDA x : x.v # Unset)

\* A call of _timeseries_params
TimeseriesParams(a) ==
  /\ built' = <<[args |-> a, params |-> timeseries_params(a)]>>
  /\ UNCHANGED <<files, io, evars, hvars>>

\* A further call with the arguments of the latest one
TimeseriesParamsAgain ==
  /\ Len(built) = 1
  /\ built' = <<[args |-> built[1].args, params |-> timeseries_params(built[1].args)]>>
                 \o built
  /\ UNCHANGED <<files, io, evars, hvars>>

\* The paths _create_io is given
Paths == {"a.dbn", "b.dbn"}

create_io_ignoring_overwrite(path, overwrite, fs) ==
  IF path = Unset
    THEN [events |-> <<"BentoMemoryIO">>, result |-> "memory", files |-> fs]
  ELSE IF path[1] \in fs
    THEN [events |-> <<"isfile", "remove", "BentoDiskIO">>, result |-> "disk",
          files |-> fs \ {path[1]}]
    ELSE [events |-> <<"isfile", "BentoDiskIO">>, result |-> "disk", files |-> fs]

\* BentoHttpAPI._create_io, up to the return: the calls it makes, what it
\* returns or raises, and the files os.remove leaves
create_io(path, overwrite, fs) ==
  IF path = Unset
    THEN [events |-> <<"BentoMemoryIO">>, result |-> "memory", files |-> fs]
  ELSE IF path[1] \in fs
    THEN IF overwrite
           THEN [events |-> <<"isfile", "remove", "BentoDiskIO">>, result |-> "disk",
                 files |-> fs \ {path[1]}]
           ELSE [events |-> <<"isfile">>, result |-> "FileExistsError", files |-> fs]
    ELSE [events |-> <<"isfile", "BentoDiskIO">>, result |-> "disk", files |-> fs]

\* A call of _create_io. Whether BentoDiskIO(path=...) creates its file at
\* once is not decided by http.py: both are allowed
CreateIo(path, overwrite, creates) ==
  LET r == create_io(path, overwrite, files)
  IN /\ creates => r.result = "disk"
     /\ io' = [op |-> "_create_io", path |-> path, overwrite |-> overwrite,
               before |-> files, events |-> r.events, result |-> r.result]
     /\ files' = IF creates THEN r.files \cup {path[1]} ELSE r.files
     /\ UNCHANGED <<built, evars, hvars>>

\* BentoHttpAPI.__init__
InitHttp ==
  /\ key \in Keys
  /\ pc = "idle"
  /\ IdleCall

\* The transport, with no vocabulary exercised
Init == vocab = "none" /\ FreshEnum /\ InitHttp /\ IdleBuild

\* The vocabularies, with no call made on the transport
InitVocabulary == InitEnum /\ key = "db-key" /\ pc = "idle" /\ IdleCall /\ IdleBuild

\* The with-blocks' exits: the response and, in the async operations, the
\* session are released; nothing closes the zstd stream writer
Released(s) == IF s = "open" THEN "closed" ELSE s

Exit(result) ==
  /\ pc' = "done"
  /\ outcome' = result
  /\ conn' = Released(conn)
  /\ session' = Released(session)

\* A caller calls _get, _get_async, _post, _stream or _stream_async, with a
\* fresh binary_io for a stream
Begin(op, basic_auth, decompress) ==
  /\ pc \in {"idle", "done"}
  /\ decompress => op \in StreamOps
  /\ pc' = "check_key"
  /\ call' = [op |-> op, basic_auth |-> basic_auth, decompress |-> decompress]
  /\ sent' = 0
  /\ request' = NoRequest
  /\ session' = "none"
  /\ conn' = "none"
  /\ response' = NoResponse
  /\ rest' = <<>>
  /\ zwriter' = "none"
  /\ sink' = <<>>
  /\ logged' = FALSE
  /\ outcome' = NoError
  /\ UNCHANGED <<key, evars, bvars>>

\* self._check_access_key()
CheckAccessKey ==
  /\ pc = "check_key"
  /\ IF is_placeholder(key)
       THEN Exit(BentoError("ValueError", 0, "none"))
       ELSE /\ pc' = IF call.op \in AsyncOps THEN "session" ELSE "request"
            /\ UNCHANGED <<outcome, conn, session>>
  /\ UNCHANGED <<key, call, sent, request, response, rest, zwriter, sink, logged, evars, bvars>>

\* async with aiohttp.ClientSession() as session
OpenSession ==
  /\ pc = "session"
  /\ session' = "open"
  /\ pc' = "request"
  /\ UNCHANGED <<key, call, sent, request, conn, response, rest, zwriter, sink,
                 logged, outcome, evars, bvars>>

\* The auth, timeout and stream arguments of requests.get / requests.post
\* and of session.get. The password is an Optional: the blocking operations
\* give HTTPBasicAuth password=None, the async ones give BasicAuth
\* password="". The blocking timeout is the pair (connect, read), the async
\* one the single number TIMEOUT
RequestOf(c, k) ==
  [method |-> IF c.op = "_post" THEN "POST" ELSE "GET",
   auth |-> c.basic_auth,
   user |-> IF c.basic_auth THEN k ELSE "",
   password |-> IF c.basic_auth /\ c.op \in AsyncOps THEN Some("") ELSE Unset,
   timeout |-> IF c.op \in AsyncOps THEN <<TIMEOUT>> ELSE <<TIMEOUT, TIMEOUT>>,
   stream |-> c.op = "_stream"]

\* requests.get / requests.post / session.get: the request goes out and a
\* response with some status and, for a stream, some body chunks comes back
SendRequest(status, chunks) ==
  /\ pc = "request"
  /\ chunks \in ChunkSeqsOf(call.op)
  /\ sent' = sent + 1
  /\ request' = RequestOf(call, key)
  /\ conn' = "open"
  /\ response' = [status |-> status, chunks |-> chunks, body |-> "unread"]
  /\ pc' = "check_error"
  /\ UNCHANGED <<key, call, session, rest, zwriter, sink, logged, outcome, evars, bvars>>

\* The request fails in transport (no connection, the timeout passes)
RequestFails ==
  /\ pc = "request"
  /\ sent' = sent + 1
  /\ request' = RequestOf(call, key)
  /\ Exit(BentoError("TransportError", 0, "none"))
  /\ UNCHANGED <<key, call, response, rest, zwriter, sink, logged, evars, bvars>>

check_error_of(op, status, body) ==
  IF op \in AsyncOps THEN check_http_error_async(status, body)
  ELSE check_http_error(status, body)

CheckError_retrying(body) ==
  /\ pc = "check_error"
  /\ body \in BodyKindsOf(response.chunks)
  /\ IF check_error_of(call.op, response.status, body) # NoError
       THEN /\ pc' = "request"
            /\ conn' = "closed"
            /\ UNCHANGED <<response, outcome, session, rest, zwriter>>
       ELSE IF call.op \in StreamOps
         THEN /\ zwriter' = IF call.decompress THEN "open" ELSE "none"
              /\ rest' = response.chunks
              /\ pc' = "stream"
              /\ UNCHANGED <<response, outcome, conn, session>>
         ELSE /\ Exit(Returns)
              /\ UNCHANGED <<response, rest, zwriter>>
  /\ UNCHANGED <<key, call, sent, request, sink, logged, evars, bvars>>

\* check_http_error(response) / await check_http_error_async(response), then
\* `return response` (_get, _get_async, _post) or the writer's setup (streams)
CheckError(body) ==
  /\ pc = "check_error"
  /\ body \in BodyKindsOf(response.chunks)
  /\ IF check_error_of(call.op, response.status, body) # NoError
       THEN /\ response' = [response EXCEPT !.body = body]
            /\ Exit(check_error_of(call.op, response.status, body))
            /\ UNCHANGED <<rest, zwriter>>
       ELSE IF call.op \in StreamOps
         THEN /\ zwriter' = IF call.decompress THEN "open" ELSE "none"
              /\ rest' = response.chunks
              /\ pc' = "stream"
              /\ UNCHANGED <<response, outcome, conn, session>>
         ELSE /\ Exit(Returns)
              /\ UNCHANGED <<response, rest, zwriter>>
  /\ UNCHANGED <<key, call, sent, request, sink, logged, evars, bvars>>

is_sentinel_never(chunk) == FALSE

is_sentinel_startswith(chunk) ==
  Len(chunk) >= Len(NO_DATA_FOUND)
    /\ SubSeq(chunk, 1, Len(NO_DATA_FOUND)) = NO_DATA_FOUND

\* chunk == _NO_DATA_FOUND
is_sentinel(chunk) == chunk = NO_DATA_FOUND

\* What zstandard's stream writer does with a chunk it is given
ZstdResults == {"ZstdError", "buffered", "output"}

\* One turn of the loop over the chunks: return on the sentinel, else
\* writer.write(chunk)
StreamChunk(zres) ==
  /\ pc = "stream"
  /\ rest # <<>>
  /\ rest' = Tail(rest)
  /\ IF is_sentinel(Head(rest))
       THEN /\ zres = "buffered"
            /\ logged' = TRUE
            /\ Exit(Returns)
            /\ UNCHANGED sink
       ELSE IF ~call.decompress
         THEN /\ zres = "buffered"
              /\ sink' = sink \o Head(rest)
              /\ UNCHANGED <<pc, outcome, conn, session, logged>>
         ELSE IF zres = "ZstdError"
           THEN /\ Exit(BentoError("ZstdError", 0, "none"))
                /\ UNCHANGED <<sink, logged>>
           ELSE /\ sink' = IF zres = "output" THEN sink \o <<"u">> ELSE sink
                /\ UNCHANGED <<pc, outcome, conn, session, logged>>
  /\ UNCHANGED <<key, call, sent, request, response, zwriter, evars, bvars>>

\* The body is exhausted: the loop ends and the operation returns None
StreamEnd ==
  /\ pc = "stream"
  /\ rest = <<>>
  /\ Exit(Returns)
  /\ UNCHANGED <<key, call, sent, request, response, rest, zwriter, sink, logged, evars, bvars>>

NextHttp ==
  \/ pc \in {"idle", "done"} /\ \E op \in Ops, b \in BOOLEAN, d \in BOOLEAN : Begin(op, b, d)
  \/ CheckAccessKey
  \/ OpenSession
  \/ pc = "request" /\ \E s \in Statuses, c \in ChunkSeqsOf(call.op) : SendRequest(s, c)
  \/ RequestFails
  \/ pc = "check_error" /\ \E b \in BodyKindsOf(response.chunks) : CheckError(b)
  \/ pc = "stream" /\ \E z \in ZstdResults : StreamChunk(z)
  \/ StreamEnd

NextEnum ==
  \/ \E x \in Inputs[vocab] : Call(vocab, x)
  \/ \E n \in AttrNames[vocab] : GetAttr(vocab, n)
  \/ \E n \in AttrNames[vocab] : GetItem(vocab, n)
  \/ \E s \in StrSubjects(vocab), f \in BOOLEAN : Stringify(vocab, s, f)
  \/ Iterate(vocab)
  \/ ReadMembers(vocab)
  \/ \E i \in MemberIdx(vocab) : RoundTrip(vocab, i)

NextRequest ==
  \/ \E a \in ArgSets : TimeseriesParams(a)
  \/ TimeseriesParamsAgain
  \/ \E p \in {Unset} \cup {Some(f) : f \in Paths}, o \in BOOLEAN, c \in BOOLEAN :
       CreateIo(p, o, c)

\* The files present when the program starts are any of Paths
InitRequest ==
  /\ vocab = "none"
  /\ FreshEnum
  /\ key = "db-key"
  /\ pc = "idle"
  /\ IdleCall
  /\ built = <<>>
  /\ files \in SUBSET Paths
  /\ io = NoIo

\* The request builders _timeseries_params and _create_io
SpecRequest == InitRequest /\ [][NextRequest]_vars

\* The transport, with the vocabularies at rest
Spec == Init /\ [][NextHttp]_vars

\* The vocabularies, with the transport at rest
SpecEnum == InitVocabulary /\ [][NextEnum]_vars

(***************************************************************************)
(* Properties of the vocabularies (checked under SpecEnum)                 *)
(***************************************************************************)
SpellingsOf ==
  Table([V \in VocabNames |-> Table([i \in MemberIdx(V) |-> Spellings(V, i)])])

Chars_glbx_mdp3 == <<"g", "l", "b", "x", "-", "m", "d", "p", "3">>

Chars_invalid == <<"i", "n", "v", "a", "l", "i", "d">>

IsCall == vocab \in VocabNames /\ last.op = "call"

\* C1: calling a vocabulary with any supported spelling of a member m (its
\* canonical value in any case, its name in any case with "_" kept or
\* written "-" or ".", or m itself) returns that same member m.
C1_SpellingsReturnTheMember ==
  IsCall =>
    \A i \in MemberIdx(vocab) :
      last.input \in SpellingsOf[vocab][i] => last.kind = "member" /\ last.idx = i

\* Dataset("glbx-mdp3") has returned Dataset.GLBX_MDP3 through the name lookup
C1_Witness ==
  /\ IsCall
  /\ vocab = "Dataset"
  /\ last.input = StrIn(Chars_glbx_mdp3)
  /\ last.kind = "member"
  /\ Members(vocab)[last.idx].name = UpperStr(ReplaceChar(Chars_glbx_mdp3, "-", "_"))

\* C2: coercing None into any vocabulary raises TypeError, never ValueError,
\* returns no member and, in SType, warns of nothing.
C2_NoneIsATypeError ==
  (IsCall /\ last.input = NoneIn) =>
    /\ last.kind = "TypeError"
    /\ last.idx = 0
    /\ last.warns = 0

\* Compression(None) has raised TypeError, although "none" is a value of it
C2_Witness ==
  /\ IsCall
  /\ vocab = "Compression"
  /\ last.input = NoneIn
  /\ last.kind = "TypeError"
  /\ ValueIndex(vocab, LowerStr(NoneStr)) # 0

\* The canonical value of member i as text
CanonText(V, i) ==
  IF IsIntEnum(V) THEN DecimalStr(Members(V)[i].ivalue) ELSE Members(V)[i].value

\* s matches neither a canonical value after lower-casing nor a symbolic
\* name after upper-casing and "."/"-" to "_" substitution
MatchesNothing(V, s) ==
  \A i \in MemberIdx(V) :
    /\ LowerStr(s) # CanonText(V, i)
    /\ UpperStr(ReplaceChar(ReplaceChar(s, ".", "_"), "-", "_")) # Members(V)[i].name

\* The message names the input s and lists exactly the canonical values of V
NamesInputListsCanon(V, s) ==
  /\ last.kind = "ValueError"
  /\ last.msgIn = s
  /\ Len(last.msgValues) = Len(Members(V))
  /\ {last.msgValues[k] : k \in 1..Len(last.msgValues)}
       = {CanonText(V, i) : i \in MemberIdx(V)}

IsAccess == vocab = "SType" /\ last.op \in {"call", "getattr", "getitem"}

\* Member i of SType is one the source marks deprecated
IsDeprecated(i) == Members("SType")[i].name \in DeprecatedNames

\* The latest operation designated member i: by attribute or subscript with
\* its name, or by a call with one of its spellings
Designates(i) ==
  \/ last.op \in {"getattr", "getitem"} /\ last.attr = Members("SType")[i].name
  \/ last.op = "call" /\ last.input \in SpellingsOf["SType"][i]

\* C4: every access of a deprecated SType member (attribute read, subscript,
\* call with its value or another accepted spelling) emits exactly one
\* deprecation warning and returns the member; so after n accesses that
\* returned a deprecated member exactly n warnings have been emitted.
C4_OneWarningPerDeprecatedAccess ==
  /\ warned = depReturned
  /\ IsAccess =>
       \A i \in MemberIdx("SType") :
         (IsDeprecated(i) /\ Designates(i)) =>
           last.kind = "member" /\ last.idx = i /\ last.warns = 1

\* A second deprecated access, SType["SMART"], has brought the warnings to two
C4_Witness ==
  /\ IsAccess
  /\ last.op = "getitem"
  /\ last.kind = "member"
  /\ Members("SType")[last.idx].name = <<"S", "M", "A", "R", "T">>
  /\ last.warns = 1
  /\ warned = 2

ReturnedDeprecated == IsAccess /\ last.kind = "member" /\ IsDeprecated(last.idx)

\* Member j is a replacement the deprecated member i declares
IsReplacementOf(j, i) == InSeq(Members("SType")[j].value, Members("SType")[i].args)

FlagText(V, v) ==
  Join(<<",", " ">>,
       NamesLower(SelectSeq(Members(V), LAMBDA f : (v \div f.ivalue) % 2 = 1)))

\* C6: a RecordFlags value stringifies as the joined lower-case names of the
\* defined flags whose bit is set, in declaration order (nothing for a
\* reserved bit, the empty string when no defined bit is set); an
\* integer-valued member that is no flag as its lower-case name; a
\* string-valued member as its canonical value unchanged.
C6_Stringification ==
  (vocab \in VocabNames /\ last.op = "str") =>
    IF last.asFlag THEN last.text = FlagText(vocab, last.ivalue)
    ELSE IF IsIntEnum(vocab)
      THEN last.text = LowerStr(Members(vocab)[last.idx].name)
      ELSE last.text = Members(vocab)[last.idx].value

\* str(RecordFlags(160)) has given "f_last, f_snapshot"
C6_Witness ==
  /\ vocab = "RecordFlags"
  /\ last.op = "str"
  /\ last.asFlag
  /\ last.ivalue = 160
  /\ last.text = <<"f", "_", "l", "a", "s", "t", ",", " ",
                   "f", "_", "s", "n", "a", "p", "s", "h", "o", "t">>

\* The deprecated members among those the latest iteration gave
YieldedDeprecated == {k \in 1..Len(yielded) : IsDeprecated(yielded[k])}

\* C16 as stated: every means of reaching PRODUCT_ID, NATIVE or SMART
\* (attribute read, subscript, call, iterating over SType, reading its
\* members mapping) emits a deprecation warning for each such member it
\* gives.
C16_Original ==
  vocab = "SType" =>
    /\ ReturnedDeprecated => last.warns = 1
    /\ last.op \in {"iter", "members"} => last.warns = Cardinality(YieldedDeprecated)

\* The member of V whose canonical value the coerced string s is (0: none)
ByValue(V, s) ==
  IF IsIntEnum(V)
    THEN IF IsIntLiteral(s) THEN IntValueIndex(V, DigitsValue(s)) ELSE 0
    ELSE ValueIndex(V, LowerStr(s))

\* The member of V whose name s is once upper-cased with "." and "-" made "_"
ByName(V, s) ==
  NameIndex(V, UpperStr(ReplaceChar(ReplaceChar(s, ".", "_"), "-", "_")))

\* C20: a string that is the canonical value of a member (after
\* lower-casing) coerces to that member whatever the name table holds, the
\* name table decides only when the value lookup fails, and no string is the
\* value of one member and the name of a different one.
C20_ValueFirstAndTablesAgree ==
  (IsCall /\ last.input.tag = "str") =>
    LET v == ByValue(vocab, last.input.s)
        n == ByName(vocab, last.input.s)
    IN /\ v # 0 => last.kind = "member" /\ last.idx = v /\ n \in {0, v}
       /\ (v = 0 /\ n # 0 /\ last.kind # "pseudo") =>
            last.kind = "member" /\ last.idx = n

\* Compression("none") has been found by value, and NONE is its name too
C20_Witness ==
  /\ IsCall
  /\ vocab = "Compression"
  /\ last.input = StrIn(<<"n", "o", "n", "e">>)
  /\ ByValue(vocab, last.input.s) = last.idx
  /\ ByName(vocab, last.input.s) = last.idx
  /\ last.idx # 0

\* C21: for every named member m of every vocabulary, coercing str(m) into
\* the vocabulary returns m: str(m) is never refused and never taken for
\* another member or for a pseudo-member.
C21_RoundTrip ==
  (vocab \in VocabNames /\ last.op = "roundtrip") =>
    /\ last.input = StrIn(MemberStr(vocab, Members(vocab)[NameIndex(vocab, last.attr)]))
    /\ last.kind = "member"
    /\ last.idx = NameIndex(vocab, last.attr)

\* Dataset(str(Dataset.XNAS_ITCH)) has returned XNAS_ITCH: the upper-case
\* value is no key of the value table once lower-cased, the name is found
C21_Witness ==
  /\ vocab = "Dataset"
  /\ last.op = "roundtrip"
  /\ last.attr = <<"X", "N", "A", "S", "_", "I", "T", "C", "H">>
  /\ last.input.s = <<"X", "N", "A", "S", ".", "I", "T", "C", "H">>
  /\ ValueIndex(vocab, LowerStr(last.input.s)) = 0
  /\ last.kind = "member"
  /\ Members(vocab)[last.idx].name = last.attr

\* The latest operation went through DeprecatedAccess and gave no deprecated
\* member: it gave another member, another attribute, or raised
GaveNoDeprecated ==
  /\ vocab = "SType"
  /\ last.op \in {"call", "getattr", "getitem", "roundtrip"}
  /\ ~(last.kind = "member" /\ IsDeprecated(last.idx))

\* C22: an access of SType that returns INSTRUMENT_ID, RAW_SYMBOL, PARENT or
\* CONTINUOUS, and a coercion into SType that raises TypeError or
\* ValueError, emit no warning; so the warnings emitted are as many as the
\* accesses that returned a deprecated member.
C22_NoWarningWithoutDeprecatedMember ==
  /\ GaveNoDeprecated => last.warns = 0 /\ last.message = NoMessage
  /\ vocab = "SType" => warned = depReturned
  /\ (vocab \in VocabNames /\ vocab # "SType") => warned = 0

\* After one deprecated access, SType(None) has raised TypeError and the
\* warnings are still one
C22_Witness ==
  /\ GaveNoDeprecated
  /\ last.op = "call"
  /\ last.input = NoneIn
  /\ last.kind = "TypeError"
  /\ last.warns = 0
  /\ warned = 1
  /\ depReturned = 1

\* The replacements the source declares, by deprecated value
DeclaredReplacements(value) ==
  CASE value = <<"p", "r", "o", "d", "u", "c", "t", "_", "i", "d">> ->
         <<"i", "n", "s", "t", "r", "u", "m", "e", "n", "t", "_", "i", "d">>
    [] value = <<"n", "a", "t", "i", "v", "e">> ->
         <<"r", "a", "w", "_", "s", "y", "m", "b", "o", "l">>
    [] value = <<"s", "m", "a", "r", "t">> ->
         <<"p", "a", "r", "e", "n", "t", " ", "o", "r", " ",
           "c", "o", "n", "t", "i", "n", "u", "o", "u", "s">>
    [] OTHER -> <<>>

\* C23: a deprecation notice names the member's own value and exactly the
\* replacements declared for it; each replacement is the canonical value of
\* an SType member that is not deprecated, whose coercion gives that member
\* and no notice; and the members that warn are PRODUCT_ID, NATIVE and SMART
\* in every state.
C23_NoticeNamesReplacements ==
  vocab = "SType" =>
    /\ \A i \in MemberIdx("SType") : on_access("SType", i) <=> IsDeprecated(i)
    /\ last.warns = 1 =>
         /\ last.kind = "member"
         /\ last.message.value = Members("SType")[last.idx].value
         /\ last.message.others = DeclaredReplacements(last.message.value)
         /\ last.message.others # <<>>
         /\ \A k \in 1..Len(Members("SType")[last.idx].args) :
              LET a == Members("SType")[last.idx].args[k]
                  j == ValueIndex("SType", a)
              IN /\ j # 0
                 /\ ~IsDeprecated(j)
                 /\ Members("SType")[j].args = <<>>
                 /\ Coerced["SType"][StrIn(a)][cache] = Returned(j)

\* SType("smart") has warned "use parent or continuous"
C23_Witness ==
  /\ vocab = "SType"
  /\ last.op = "call"
  /\ last.input = StrIn(<<"s", "m", "a", "r", "t">>)
  /\ last.warns = 1
  /\ Len(Members("SType")[last.idx].args) = 2
  /\ last.message.others = DeclaredReplacements(<<"s", "m", "a", "r", "t">>)

(***************************************************************************)
(* Properties of the transport (checked under Spec)                        *)
(***************************************************************************)
\* The error check of the current call has run on a response
Checked == pc \in {"stream", "done"} /\ response.status # 0

\* What the error check raised: it reads the body only to raise
CheckRaised == IF response.body # "unread" THEN outcome ELSE NoError

\* C7 as stated: for every status s, check_http_error and
\* check_http_error_async raise a client error exactly when 400 <= s <= 499,
\* a server error exactly when 500 <= s <= 599 and nothing otherwise, and the
\* error raised carries http_status = s.
C7_Original ==
  Checked =>
    LET s == response.status IN
      /\ CheckRaised.class = "BentoClientError" <=> (400 <= s /\ s <= 499)
      /\ CheckRaised.class = "BentoServerError" <=> (500 <= s /\ s <= 599)
      /\ ~(400 <= s /\ s <= 599) => CheckRaised = NoError
      /\ CheckRaised # NoError => CheckRaised.http_status = s

\* C8 as stated: on every error response, whether its body is JSON with a
\* detail, JSON without one or no JSON at all, the blocking and the async
\* check give the same outcome: the classified error, with the detail as its
\* message when there is one and with no message otherwise.
C8_Original ==
  (Checked /\ response.body \in {"json_detail", "json_no_detail", "not_json"}) =>
    /\ check_http_error(response.status, response.body)
         = check_http_error_async(response.status, response.body)
    /\ outcome.class \in {"BentoClientError", "BentoServerError"}
    /\ outcome.message = IF response.body = "json_detail" THEN "detail" ELSE "None"

\* A stream has ended on a response whose whole body is the sentinel
StreamedSentinelBody ==
  /\ pc = "done"
  /\ call.op \in StreamOps
  /\ response.status # 0
  /\ Concat(response.chunks) = NO_DATA_FOUND

\* C9 as stated: a streamed response whose body is exactly the sentinel
\* writes zero bytes to the sink and returns without raising.
C9_Original ==
  StreamedSentinelBody => sink = <<>> /\ outcome = Returns

\* C9 (amended): when a streamed response has a status outside 400..599 and
\* its body arrives as one chunk equal to the sentinel, nothing is written
\* to the sink, the fact is logged and the call returns normally. With an
\* error status the call raises and writes nothing. When the sentinel
\* arrives split into several chunks it is not recognised: without
\* decompression its bytes are written to the sink, and with decompression
\* they are given to the zstd writer, which may fail.
C9_SentinelChunkWritesNothing ==
  StreamedSentinelBody =>
    IF response.status \in 400..599
      THEN sink = <<>> /\ outcome.class \notin {"none", "returned"}
    ELSE IF response.chunks = <<NO_DATA_FOUND>>
      THEN sink = <<>> /\ outcome = Returns /\ logged
    ELSE /\ ~logged
         /\ ~call.decompress => sink = NO_DATA_FOUND /\ outcome = Returns
         /\ call.decompress => outcome.class \in {"ZstdError", "returned"}

\* _stream_async with decompression has met the sentinel as the only chunk
\* of a 200 response
C9_Witness ==
  /\ StreamedSentinelBody
  /\ call.op = "_stream_async"
  /\ call.decompress
  /\ response.status = 200
  /\ response.chunks = <<NO_DATA_FOUND>>
  /\ sink = <<>>
  /\ logged
  /\ outcome = Returns

\* C10: while the configured key is the placeholder, no operation sends a
\* request, opens a session or a connection, receives a response or writes
\* to the sink, and each of them ends with the ValueError of
\* _check_access_key.
C10_PlaceholderKeyFailsBeforeIO ==
  key = YOUR_ACCESS_KEY =>
    /\ sent = 0
    /\ request = NoRequest
    /\ session = "none"
    /\ conn = "none"
    /\ response = NoResponse
    /\ sink = <<>>
    /\ pc \in {"idle", "check_key", "done"}
    /\ pc = "done" => outcome.class = "ValueError"

\* _post has failed on the placeholder key
C10_Witness ==
  /\ key = YOUR_ACCESS_KEY
  /\ pc = "done"
  /\ call.op = "_post"
  /\ outcome.class = "ValueError"
  /\ sent = 0

\* C14 as stated: when an operation has exited, by return, by the early
\* return on the sentinel or by a raised error, the response, the client
\* session and the zstd stream writer it acquired are all released.
C14_Original ==
  pc = "done" => conn # "open" /\ session # "open" /\ zwriter # "open"

ClassifiedErrors == {"BentoClientError", "BentoServerError"}

C17_Original ==
  request # NoRequest =>
    /\ request.auth = call.basic_auth
    /\ call.basic_auth => request.user = key /\ request.password = Some("")
    /\ ~call.basic_auth => request.user = "" /\ request.password = Unset
    /\ request.timeout = <<TIMEOUT, TIMEOUT>>

IsSentinelChunk(chunks, i) == chunks[i] = NO_DATA_FOUND

\* The chunks that precede the first one equal to the sentinel
BeforeSentinel(chunks) ==
  IF \E i \in 1..Len(chunks) : IsSentinelChunk(chunks, i)
    THEN SubSeq(chunks, 1,
                (CHOOSE i \in 1..Len(chunks) :
                   /\ IsSentinelChunk(chunks, i)
                   /\ \A j \in 1..(i - 1) : ~IsSentinelChunk(chunks, j)) - 1)
    ELSE chunks

\* A stream without decompression has passed the error check
PlainStream ==
  /\ call.op \in StreamOps
  /\ ~call.decompress
  /\ Checked
  /\ response.body = "unread"

C19_Original ==
  (call.op \in StreamOps /\ Checked /\ response.status \in 400..599) =>
    /\ outcome.class \in ClassifiedErrors
    /\ sink = <<>>
    /\ zwriter = "none"

(***************************************************************************)
(* Properties of the request builders (checked under SpecRequest)          *)
(***************************************************************************)
OptionalParams == {"symbols", "start", "end", "limit"}

RequiredParams ==
  <<"dataset", "schema", "encoding", "compression", "stype_in", "stype_out">>

\* The caller gave the optional parameter k a value
Supplied(a, k) ==
  CASE k = "symbols" -> a.symbols # Unset
    [] k = "start" -> a.start # Unset
    [] k = "end" -> a.end # Unset
    [] k = "limit" -> a.limit # Unset

\* The keys of a list of pairs, in its order
KeysOf(params) == [i \in 1..Len(params) |-> params[i].k]

\* How many pairs of the list have the key k
Count(params, k) == Cardinality({i \in 1..Len(params) : params[i].k = k})

IoEvent(e) == \E i \in 1..Len(io.events) : io.events[i] = e

\* C13: _create_io with no path returns an in-memory container and leaves
\* the file system alone; with a path at which a file exists it raises
\* FileExistsError, creating no container and removing nothing, unless
\* overwrite is set, and then it removes the file before it creates the disk
\* container; with a path at which no file exists it removes nothing.
C13_CreateIo ==
  io.op = "_create_io" =>
    IF io.path = Unset
      THEN /\ io.result = "memory"
           /\ io.events = <<"BentoMemoryIO">>
           /\ files = io.before
    ELSE IF io.path[1] \in io.before /\ ~io.overwrite
      THEN /\ io.result = "FileExistsError"
           /\ ~IoEvent("remove")
           /\ ~IoEvent("BentoDiskIO")
           /\ ~IoEvent("BentoMemoryIO")
           /\ files = io.before
    ELSE IF io.path[1] \in io.before
      THEN /\ io.result = "disk"
           /\ io.events = <<"isfile", "remove", "BentoDiskIO">>
           /\ files \ {io.path[1]} = io.before \ {io.path[1]}
    ELSE /\ io.result = "disk"
         /\ ~IoEvent("remove")
         /\ io.before \subseteq files

\* An existing file has been refused for want of overwrite, and is still there
C13_Witness ==
  /\ io.op = "_create_io"
  /\ io.path # Unset
  /\ io.path[1] \in io.before
  /\ ~io.overwrite
  /\ io.result = "FileExistsError"
  /\ io.path[1] \in files
====
